---- MODULE Spec2Model ----
(***************************************************************************)
(* Model of gpx-draw.py: the command line entry point, create_map and the  *)
(* functions it calls (parse_gpx, exceeds_speed_threshold, draw_geojson,   *)
(* configure_plot, draw_gpx_points, autoscale_resolution_from_bbox).       *)
(*                                                                         *)
(* A Python exception is modelled as the run ending in pc = "aborted"      *)
(* (the script has no try/except anywhere), or, for a function, as a       *)
(* result record whose ok field is FALSE.                                  *)
(*                                                                         *)
(* gpx-draw.py line 112 repeats the header of draw_geojson_backgrounds in  *)
(* front of its docstring; the model takes the function as the single      *)
(* definition whose body is lines 137-143.                                 *)
(*                                                                         *)
(* Numbers: track points lie on the equator and bounding boxes are centred *)
(* on it, where the haversine formula reduces to R * |dlon| (in radians)   *)
(* and the latitude correction cos(mean latitude) is 1.  Distances are     *)
(* whole kilometres, times whole seconds; every time text that parses is   *)
(* an instant with a UTC offset, so two times can always be subtracted.    *)
(***************************************************************************)
EXTENDS Integers, Sequences, FiniteSets, TLC

\* ------------------------------------------------------------------ bounds
MaxPts == 3
MaxFiles == 2
MaxOverlays == 2
MaxFeatures == 1

\* Python's None, for an optional value carried as a sequence of length <= 1.
None == << >>
Some(v) == << v >>
IsNone(o) == o = << >>
Val(o) == o[1]

Abs(x) == IF x < 0 THEN -x ELSE x

SeqsUpTo(S, n) == UNION { [1..k -> S] : k \in 0..n }

\* ------------------------------------------------------- the GPX documents
\* A trkpt element: coords says whether the lat and lon attributes are both
\* present and numeric; time is the nested time element: absent (None), or
\* its text, which is either an ISO-8601 instant (iso, t seconds) or not.
TimedTrkpts ==
  { [coords |-> TRUE, lat |-> 0, lon |-> x, time |-> Some([iso |-> TRUE, t |-> s])] :
      x \in {0, 1}, s \in {0, 3600} }
UntimedTrkpts ==
  { [coords |-> TRUE, lat |-> 0, lon |-> x, time |-> None] : x \in {0, 1} }
BadTimeTrkpt ==
  [coords |-> TRUE, lat |-> 0, lon |-> 0, time |-> Some([iso |-> FALSE, t |-> 0])]
NoCoordsTrkpt ==
  [coords |-> FALSE, lat |-> 0, lon |-> 0, time |-> None]
Trkpts == TimedTrkpts \cup UntimedTrkpts \cup {BadTimeTrkpt, NoCoordsTrkpt}

\* A file: wellformed says whether ET.parse accepts it; trkpts are the
\* gpx:trkpt elements in document order.
MalformedDoc == [wellformed |-> FALSE, trkpts |-> << >>]
GpxDocs ==
  { [wellformed |-> TRUE, trkpts |-> s] : s \in SeqsUpTo(Trkpts, MaxPts) }
    \cup {MalformedDoc}

\* The track files the source directory may hold: one document for each way
\* a file can go through lines 160-164.
Trkpt(x, s) == [coords |-> TRUE, lat |-> 0, lon |-> x, time |-> Some([iso |-> TRUE, t |-> s])]
NoTimeTrkpt(x) == [coords |-> TRUE, lat |-> 0, lon |-> x, time |-> None]
Doc(s) == [wellformed |-> TRUE, trkpts |-> s]
DirDocs ==
  { MalformedDoc,
    Doc(<< NoCoordsTrkpt >>),
    Doc(<< Trkpt(0, 0), BadTimeTrkpt >>),
    Doc(<< >>),
    Doc(<< NoTimeTrkpt(0) >>),
    Doc(<< Trkpt(0, 0) >>),
    Doc(<< Trkpt(0, 0), Trkpt(0, 3600) >>),
    Doc(<< Trkpt(0, 0), Trkpt(1, 0) >>),
    Doc(<< Trkpt(0, 0), Trkpt(1, 3600) >>),
    Doc(<< Trkpt(0, 0), NoTimeTrkpt(0), Trkpt(1, 3600) >>) }

\* ---------------------------------------------------------------- parse_gpx
\* The loop of lines 25-31 from element i on, points being the list so far.
\* float(trkpt.get('lat')) raises when the attribute is missing; a trkpt
\* without a time element appends nothing; fromisoformat raises on bad text.
RECURSIVE parse_loop(_, _, _)
parse_loop(trkpts, i, points) ==
  IF i > Len(trkpts) THEN [ok |-> TRUE, points |-> points]
  ELSE LET trkpt == trkpts[i] IN
       IF ~trkpt.coords THEN [ok |-> FALSE, points |-> << >>]
       ELSE IF IsNone(trkpt.time) THEN parse_loop(trkpts, i + 1, points)
       ELSE IF ~Val(trkpt.time).iso THEN [ok |-> FALSE, points |-> << >>]
       ELSE parse_loop(trkpts, i + 1,
                       Append(points, <<trkpt.lat, trkpt.lon, Val(trkpt.time).t>>))

parse_gpx(doc) ==
  IF ~doc.wellformed THEN [ok |-> FALSE, points |-> << >>]
  ELSE parse_loop(doc.trkpts, 1, << >>)

\* ---------------------------------------------------------------- haversine
\* Kilometres between two points of the equator: R * c with c = |dlon| in
\* radians (pi as 31416/10000), truncated to whole kilometres.
EarthRadiusKm == 6371
haversine(lat1, lon1, lat2, lon2) ==
  (EarthRadiusKm * 31416 * Abs(lon2 - lon1)) \div (180 * 10000)

\* abs(distance_km / (dt_seconds / 3600.0)) as the fraction num/den, den > 0.
compute_speed_kph(lat1, lon1, lat2, lon2, dt_seconds) ==
  [num |-> haversine(lat1, lon1, lat2, lon2) * 3600, den |-> Abs(dt_seconds)]

\* speed_kph > max_kph (line 63).
over_limit_ge(speed_kph, max_kph) == speed_kph.num >= max_kph * speed_kph.den
over_limit(speed_kph, max_kph) == speed_kph.num > max_kph * speed_kph.den

\* --------------------------------------------------- exceeds_speed_threshold
\* The loop of lines 56-65 from index i on (1-based: i is the later point of
\* the pair).  ret is the value returned, last the index of the last pair
\* the loop looked at (i - 1 when it looked at none), calls the number of
\* compute_speed_kph calls made.
RECURSIVE speed_loop(_, _, _, _)
speed_loop(points, max_kph, i, calls) ==
  IF i > Len(points) THEN [ret |-> FALSE, last |-> i - 1, calls |-> calls]
  ELSE LET dt_seconds == points[i][3] - points[i - 1][3] IN
       IF dt_seconds = 0 THEN speed_loop(points, max_kph, i + 1, calls)
       ELSE IF over_limit(compute_speed_kph(points[i - 1][1], points[i - 1][2],
                                            points[i][1], points[i][2], dt_seconds),
                          max_kph)
            THEN [ret |-> TRUE, last |-> i, calls |-> calls + 1]
            ELSE speed_loop(points, max_kph, i + 1, calls + 1)

exceeds_speed_threshold(points, max_kph) == speed_loop(points, max_kph, 2, 0).ret

\* The condition of line 161.
excluded(points, max_speed) ==
  ~IsNone(max_speed) /\ exceeds_speed_threshold(points, Val(max_speed))

\* ------------------------------------------------------------- draw_geojson
\* matplotlib.colors.to_rgba raises ValueError on a string it cannot parse.
DefaultFill == "#00000044"
DefaultLine == "#00000088"
Colors == {"#FF000088", "notacolor"}
ValidColors == {"#FF000088"}
to_rgba_ok(c) == c # "notacolor"

\* An overlay file: readable says whether open() and json.load succeed;
\* features are the geometry types of data['features'] in order, pairs
\* saying whether the coordinates unpack into (lon, lat) columns.
GeomTypes == {"LineString", "Polygon", "MultiPolygon"}
Features ==
  { [type |-> t, pairs |-> b] : t \in GeomTypes, b \in BOOLEAN }
    \cup { [type |-> "Point", pairs |-> TRUE] }
UnreadableFile == [readable |-> FALSE, features |-> << >>]
OverlayFiles ==
  { [readable |-> TRUE, features |-> s] : s \in SeqsUpTo(Features, MaxFeatures) }
    \cup {UnreadableFile}

\* An artist put on the axes: what it is, its zorder, and the overlay
\* request or directory entry it came from (0 for the clip rectangle).
Artist(kind, zorder, src) == [kind |-> kind, zorder |-> zorder, src |-> src]

\* The loop of lines 75-93 from feature i on.  A LineString unpacks its
\* coordinates, then converts line_color; a Polygon or MultiPolygon ring
\* unpacks, then converts fill_color and line_color; other types are skipped.
RECURSIVE feature_loop(_, _, _, _, _, _)
feature_loop(axies, features, i, fill_color, line_color, src) ==
  IF i > Len(features) THEN [ok |-> TRUE, axies |-> axies]
  ELSE LET t == features[i].type IN
       IF t = "LineString"
       THEN IF features[i].pairs /\ to_rgba_ok(line_color)
            THEN feature_loop(Append(axies, Artist("overlay", 1, src)),
                              features, i + 1, fill_color, line_color, src)
            ELSE [ok |-> FALSE, axies |-> axies]
       ELSE IF t \in {"Polygon", "MultiPolygon"}
       THEN IF features[i].pairs /\ to_rgba_ok(fill_color) /\ to_rgba_ok(line_color)
            THEN feature_loop(Append(axies, Artist("overlay", 1, src)),
                              features, i + 1, fill_color, line_color, src)
            ELSE [ok |-> FALSE, axies |-> axies]
       ELSE feature_loop(axies, features, i + 1, fill_color, line_color, src)

draw_geojson(axies, file, fill_color, line_color, src) ==
  IF ~file.readable THEN [ok |-> FALSE, axies |-> axies]
  ELSE feature_loop(axies, file.features, 1, fill_color, line_color, src)

\* The colours draw_geojson_backgrounds passes for one request (lines 138-143).
fill_of(path_and_color) ==
  IF Len(path_and_color) = 1 THEN DefaultFill ELSE path_and_color[2]
line_of(path_and_color) ==
  IF Len(path_and_color) \in {1, 2} THEN DefaultLine ELSE path_and_color[3]

\* ------------------------------------------------------------ configure_plot
\* The Rectangle of lines 103-104 is the first artist on the axes; a patch
\* that is given no zorder has matplotlib's patch default, 1.
configure_plot(bbox) ==
  IF IsNone(bbox) THEN << >> ELSE << Artist("clip", 1, 0) >>

\* ----------------------------------------------------------- draw_gpx_points
\* zip(*[]) yields nothing, so "lats, lons = ..." raises ValueError for an
\* empty list of points.  The track is plotted with zorder 2.
draw_gpx_points_z1(points, axies, src) ==
  IF Len(points) = 0 THEN [ok |-> FALSE, axies |-> axies]
  ELSE [ok |-> TRUE, axies |-> Append(axies, Artist("track", 1, src))]
draw_gpx_points(points, axies, src) ==
  IF Len(points) = 0 THEN [ok |-> FALSE, axies |-> axies]
  ELSE [ok |-> TRUE, axies |-> Append(axies, Artist("track", 2, src))]

\* ------------------------------------------- autoscale_resolution_from_bbox
\* bbox is (min_lon, max_lon, min_lat, max_lat).  Boxes are centred on the
\* equator, so scale_factor = cos(0) = 1.
DefaultResolution == <<512, 512>>
Box == <<0, 2, -1, 1>>
FlatBox == <<0, 2, 0, 0>>
autoscale_resolution_from_bbox(bbox, target_height) ==
  IF IsNone(bbox) THEN [ok |-> FALSE, error |-> "ValueError", resolution |-> None]
  ELSE LET lat_range == Val(bbox)[4] - Val(bbox)[3]
           lon_range == Val(bbox)[2] - Val(bbox)[1]
       IN IF lat_range = 0
          THEN [ok |-> FALSE, error |-> "ZeroDivisionError", resolution |-> None]
          ELSE [ok |-> TRUE, error |-> "",
                resolution |-> Some(<<(target_height * lon_range) \div lat_range,
                                      target_height>>)]

\* -------------------------------------------------------------------- state
VARIABLES
  args,        \* the parsed command line
  pc,          \* where the run is
  resolution,  \* None until __main__ has resolved it
  limits,      \* the axes' visible window (set_xlim/set_ylim), None if unset
  axies,       \* the artists on the axes, in the order they were added
  ovl,         \* index of the next overlay request
  opened,      \* overlay files opened so far
  listing,     \* None until os.listdir; then, per entry, whether it ends in .gpx
  file_i,      \* index of the next directory entry
  hist,        \* per directory entry visited: what was done with it
  warnings,    \* logger.warning calls: indices of the entries skipped
  saved,       \* number of figure.savefig calls
  rendered,    \* the artists savefig was given, None before the call
  err,         \* the exception that ended the run, "" if none
  fdoc, fmax, fphase, fparsed, fres   \* a single track file, function by function

vars == <<args, pc, resolution, limits, axies, ovl, opened, listing, file_i, hist,
          warnings, saved, rendered, err, fdoc, fmax, fphase, fparsed, fres>>

pipe_vars == <<args, pc, resolution, limits, axies, ovl, opened, listing, file_i,
               hist, warnings, saved, rendered, err>>
track_vars == <<fdoc, fmax, fphase, fparsed, fres>>

\* One --geojson occurrence: PATH [FILL [LINE]], colours drawn from C.
Requests(C) ==
  { <<"overlay.geojson">> }
    \cup { <<"overlay.geojson", c>> : c \in C }
    \cup { <<"overlay.geojson", c, d>> : c \in C, d \in C }

\* args.geojson: None when the option is not given, else the requests in order.
GeojsonArgs(C) ==
  {None} \cup { Some(s) : s \in SeqsUpTo(Requests(C), MaxOverlays) \ {<< >>} }

MaxSpeeds == {None, Some(100), Some(111)}

ArgsSet(C) ==
  [autoscale : {None, Some(100)},
   bbox      : {None, Some(Box), Some(FlatBox)},
   maxspeed  : MaxSpeeds,
   geojson   : GeojsonArgs(C)]

NoRes == [ret |-> FALSE, last |-> 0, calls |-> 0, excluded |-> FALSE]

TrackIdle ==
  /\ fdoc = MalformedDoc
  /\ fmax = None
  /\ fphase = "off"
  /\ fparsed = [ok |-> FALSE, points |-> << >>]
  /\ fres = NoRes

PipeStart(a) ==
  /\ args = a
  /\ pc = "main"
  /\ resolution = None
  /\ limits = None
  /\ axies = << >>
  /\ ovl = 1
  /\ opened = 0
  /\ listing = None
  /\ file_i = 1
  /\ hist = << >>
  /\ warnings = << >>
  /\ saved = 0
  /\ rendered = None
  /\ err = ""

\* Runs whose colour strings all parse.
PipeIdle ==
  /\ args = [autoscale |-> None, bbox |-> None, maxspeed |-> None, geojson |-> None]
  /\ pc = "off"
  /\ resolution = None
  /\ limits = None
  /\ axies = << >>
  /\ ovl = 1
  /\ opened = 0
  /\ listing = None
  /\ file_i = 1
  /\ hist = << >>
  /\ warnings = << >>
  /\ saved = 0
  /\ rendered = None
  /\ err = ""

Init == (\E a \in ArgsSet(ValidColors) : PipeStart(a)) /\ TrackIdle

\* Runs with any colour strings.
InitAnyColor == (\E a \in ArgsSet(Colors) : PipeStart(a)) /\ TrackIdle

Abort(e) == pc' = "aborted" /\ err' = e

\* ------------------------------------------------------------ __main__
\* Lines 203-208: resolve the resolution, then call create_map.
Main ==
  /\ pc = "main"
  /\ IF ~IsNone(args.autoscale)
     THEN LET r == autoscale_resolution_from_bbox(args.bbox, Val(args.autoscale)) IN
          IF r.ok
          THEN resolution' = r.resolution /\ pc' = "configure_plot" /\ err' = err
          ELSE resolution' = resolution /\ Abort(r.error)
     ELSE resolution' = Some(DefaultResolution) /\ pc' = "configure_plot" /\ err' = err
  /\ UNCHANGED <<args, limits, axies, ovl, opened, listing, file_i, hist, warnings,
                 saved, rendered, track_vars>>

\* ------------------------------------------------------------ create_map
\* Line 152, and the test of line 154.
ConfigurePlot ==
  /\ pc = "configure_plot"
  /\ axies' = configure_plot(args.bbox)
  /\ limits' = args.bbox
  /\ pc' = IF IsNone(args.geojson) THEN "listdir" ELSE "backgrounds"
  /\ UNCHANGED <<args, resolution, ovl, opened, listing, file_i, hist, warnings,
                 saved, rendered, err, track_vars>>

\* Where the run goes after draw_geojson for request i of n: an exception
\* leaves the loop of lines 137-143 and create_map; otherwise the loop goes
\* on, and after the last request create_map goes on to line 157.
overlay_next_pc_swallow(ok, i, n) == IF i = n THEN "listdir" ELSE "backgrounds"
overlay_next_pc(ok, i, n) ==
  IF ~ok THEN "aborted" ELSE IF i = n THEN "listdir" ELSE "backgrounds"

\* One iteration of the loop of draw_geojson_backgrounds (lines 137-143):
\* the file of request ovl is whatever the file system holds.
DrawBackground ==
  /\ pc = "backgrounds"
  /\ ovl <= Len(Val(args.geojson))
  /\ \E file \in OverlayFiles :
       LET path_and_color == Val(args.geojson)[ovl]
           r == draw_geojson(axies, file, fill_of(path_and_color),
                             line_of(path_and_color), ovl)
       IN /\ opened' = opened + 1
          /\ axies' = r.axies
          /\ ovl' = IF r.ok THEN ovl + 1 ELSE ovl
          /\ err' = IF r.ok THEN err ELSE "draw_geojson"
          /\ pc' = overlay_next_pc(r.ok, ovl, Len(Val(args.geojson)))
  /\ UNCHANGED <<args, resolution, limits, listing, file_i, hist, warnings, saved,
                 rendered, track_vars>>

\* os.listdir(source_folder), line 157.
ListDir ==
  /\ pc = "listdir"
  /\ \E names \in SeqsUpTo(BOOLEAN, MaxFiles) :
       /\ listing' = Some(names)
       /\ pc' = IF Len(names) = 0 THEN "savefig" ELSE "tracks"
  /\ UNCHANGED <<args, resolution, limits, axies, ovl, opened, file_i, hist,
                 warnings, saved, rendered, err, track_vars>>

\* os.listdir raises when the folder cannot be listed.
ListDirFails ==
  /\ pc = "listdir"
  /\ Abort("listdir")
  /\ UNCHANGED <<args, resolution, limits, axies, ovl, opened, listing, file_i,
                 hist, warnings, saved, rendered, track_vars>>

\* What was done with one directory entry: whether its name ends in .gpx,
\* whether parse_gpx returned, whether it returned no points, whether line
\* 161 excluded the track, whether draw_gpx_points drew it.
Entry(gpx, parsed, empty, excl, drawn) ==
  [gpx |-> gpx, parsed |-> parsed, empty |-> empty, excluded |-> excl,
   drawn |-> drawn]

\* The for loop of line 157: line 167 is reached after the last entry.
AfterEntry_early == "savefig"
AfterEntry == IF file_i = Len(Val(listing)) THEN "savefig" ELSE "tracks"

\* Line 158 false: the entry is not a .gpx file.
IgnoreEntry ==
  /\ pc = "tracks"
  /\ ~Val(listing)[file_i]
  /\ hist' = Append(hist, Entry(FALSE, FALSE, FALSE, FALSE, FALSE))
  /\ file_i' = file_i + 1
  /\ pc' = AfterEntry
  /\ UNCHANGED <<args, resolution, limits, axies, ovl, opened, listing, warnings,
                 saved, rendered, err, track_vars>>

\* Lines 159-164 for one .gpx entry, whose content is whatever the file holds.
ProcessFile ==
  /\ pc = "tracks"
  /\ Val(listing)[file_i]
  /\ \E doc \in DirDocs :
       LET p == parse_gpx(doc)
           points == p.points
       IN IF ~p.ok
          THEN /\ hist' = Append(hist, Entry(TRUE, FALSE, FALSE, FALSE, FALSE))
               /\ Abort("parse_gpx")
               /\ UNCHANGED <<axies, warnings, file_i>>
          ELSE IF excluded(points, args.maxspeed)
          THEN /\ hist' = Append(hist, Entry(TRUE, TRUE, Len(points) = 0, TRUE, FALSE))
               /\ warnings' = Append(warnings, file_i)
               /\ file_i' = file_i + 1
               /\ pc' = AfterEntry
               /\ UNCHANGED <<axies, err>>
          ELSE LET d == draw_gpx_points(points, axies, file_i) IN
               IF d.ok
               THEN /\ hist' = Append(hist, Entry(TRUE, TRUE, Len(points) = 0, FALSE, TRUE))
                    /\ axies' = d.axies
                    /\ file_i' = file_i + 1
                    /\ pc' = AfterEntry
                    /\ UNCHANGED <<warnings, err>>
               ELSE /\ hist' = Append(hist, Entry(TRUE, TRUE, Len(points) = 0, FALSE, FALSE))
                    /\ Abort("draw_gpx_points")
                    /\ UNCHANGED <<axies, warnings, file_i>>
  /\ UNCHANGED <<args, resolution, limits, ovl, opened, listing, saved, rendered,
                 track_vars>>

\* figure.savefig, lines 167-170: the renderer returns or raises.
SaveFig ==
  /\ pc = "savefig"
  /\ saved' = saved + 1
  /\ rendered' = Some(axies)
  /\ \/ pc' = "done" /\ err' = err
     \/ Abort("savefig")
  /\ UNCHANGED <<args, resolution, limits, axies, ovl, opened, listing, file_i,
                 hist, warnings, track_vars>>

Next ==
  \/ Main
  \/ ConfigurePlot
  \/ DrawBackground
  \/ ListDir
  \/ ListDirFails
  \/ IgnoreEntry
  \/ ProcessFile
  \/ SaveFig

Spec == Init /\ [][Next]_vars

SpecAnyColor == InitAnyColor /\ [][Next]_vars

\* ------------------------------------------- one track file, by function
\* parse_gpx on any document, then the condition of line 161 on its result.
InitTrack ==
  /\ PipeIdle
  /\ fdoc \in GpxDocs
  /\ fmax \in MaxSpeeds
  /\ fphase = "read"
  /\ fparsed = [ok |-> FALSE, points |-> << >>]
  /\ fres = NoRes

TrackParse ==
  /\ fphase = "read"
  /\ fparsed' = parse_gpx(fdoc)
  /\ fphase' = IF fparsed'.ok THEN "parsed" ELSE "error"
  /\ UNCHANGED <<fdoc, fmax, fres, pipe_vars>>

\* "max_speed is not None and exceeds_speed_threshold(points, max_speed)":
\* the function is not called when max_speed is None.
TrackFilter ==
  /\ fphase = "parsed"
  /\ fres' = IF IsNone(fmax)
             THEN [NoRes EXCEPT !.excluded = excluded(fparsed.points, fmax)]
             ELSE LET r == speed_loop(fparsed.points, Val(fmax), 2, 0) IN
                  [ret |-> exceeds_speed_threshold(fparsed.points, Val(fmax)),
                   last |-> r.last, calls |-> r.calls,
                   excluded |-> excluded(fparsed.points, fmax)]
  /\ fphase' = "filtered"
  /\ UNCHANGED <<fdoc, fmax, fparsed, pipe_vars>>

NextTrack == TrackParse \/ TrackFilter

SpecTrack == InitTrack /\ [][NextTrack]_vars

\* ------------------------------------------------------------ properties
Overlays(a) == { i \in 1..Len(a) : a[i].kind = "overlay" }
Tracks(a) == { i \in 1..Len(a) : a[i].kind = "track" }
Clips(a) == { i \in 1..Len(a) : a[i].kind = "clip" }
NoGpxEntry == \A i \in 1..Len(Val(listing)) : ~Val(listing)[i]
AllStaged ==
  /\ IsNone(args.geojson) \/ ovl > Len(Val(args.geojson))
  /\ ~IsNone(listing)
  /\ file_i > Len(Val(listing))
  /\ Len(hist) = Len(Val(listing))
SavedOnceAfterStaging ==
  /\ saved <= 1
  /\ pc = "done" => saved = 1
  /\ saved = 1 => (AllStaged /\ pc \in {"done", "aborted"} /\ ~IsNone(resolution))

\* C1: a track file whose parse fails is skipped and nothing else: the loop
\* goes on to the entries after it and the failure does not end the run.
C1_ParseFailureSkipsOnlyThatFile ==
  \A i \in 1..Len(hist) :
    (hist[i].gpx /\ ~hist[i].parsed) => (file_i > i /\ err # "parse_gpx")

\* C2 as stated: savefig is called exactly once in a run that completes, and
\* only after every overlay and directory entry has been dealt with; with no
\* overlay and no .gpx entry the renderer is given an empty list of geometry.
C2_Original ==
  /\ SavedOnceAfterStaging
  /\ (pc = "done" /\ IsNone(args.geojson) /\ NoGpxEntry) => Val(rendered) = << >>

\* C2 amended: as above, but with no overlay and no .gpx entry the renderer
\* is given no overlay and no track: nothing when there is no bounding box,
\* the clip rectangle alone when there is one.
C2_SavedOnceAfterStaging ==
  /\ SavedOnceAfterStaging
  /\ (pc = "done" /\ IsNone(args.geojson) /\ NoGpxEntry) =>
       Val(rendered) = IF IsNone(args.bbox) THEN << >>
                       ELSE << [kind |-> "clip", zorder |-> 1, src |-> 0] >>

C2_Witness ==
  /\ pc = "done"
  /\ saved = 1
  /\ IsNone(args.geojson)
  /\ Len(Val(listing)) > 0
  /\ NoGpxEntry
  /\ ~IsNone(args.bbox)
  /\ Len(Val(rendered)) = 1

\* C3: with a speed threshold configured, of the tracks that parsed exactly
\* the ones not excluded are drawn; an excluded track is warned about, not
\* drawn, and the loop goes on after it.
C3_StagedExactlyTheNotExcluded ==
  ~IsNone(args.maxspeed) =>
    \A i \in 1..Len(hist) :
      hist[i].parsed =>
        /\ hist[i].drawn <=> ~hist[i].excluded
        /\ hist[i].drawn <=> (\E k \in Tracks(axies) : axies[k].src = i)
        /\ hist[i].excluded =>
             (file_i > i /\ (\E w \in 1..Len(warnings) : warnings[w] = i))

\* The pairs of a list of points whose speed is above max_kph: the two times
\* differ and distance / (|dt| / 3600) > max_kph.
TooFast(points, i, max_kph) ==
  /\ points[i][3] # points[i - 1][3]
  /\ haversine(points[i - 1][1], points[i - 1][2], points[i][1], points[i][2]) * 3600
       > max_kph * Abs(points[i][3] - points[i - 1][3])

\* C4: exceeds_speed_threshold returns true exactly when some adjacent pair
\* with differing times is faster than max_kph; it stops at the first such
\* pair, having computed a speed for no pair after it; it returns false for
\* fewer than 2 points; with max_speed None nothing is excluded.
C4_ExceedsIffSomePairTooFast ==
  fphase = "filtered" =>
    LET points == fparsed.points
        n == Len(points)
    IN IF IsNone(fmax) THEN ~fres.excluded /\ fres.calls = 0
       ELSE LET fast == { i \in 2..n : TooFast(points, i, Val(fmax)) } IN
            /\ fres.excluded = fres.ret
            /\ fres.ret <=> fast # {}
            /\ n < 2 => ~fres.ret
            /\ fres.ret => (fres.last \in fast /\ \A j \in fast : fres.last <= j)
            /\ ~fres.ret => fres.last = (IF n < 2 THEN 1 ELSE n)
            /\ fres.calls =
                 Cardinality({ i \in 2..fres.last : points[i][3] # points[i - 1][3] })

C4_Witness ==
  /\ fphase = "filtered"
  /\ fres.ret
  /\ fres.last < Len(fparsed.points)
  /\ fres.calls = 1

\* A pair of trkpt elements adjacent in the document that the speed filter
\* may evaluate: both carry a time and the times differ.
DocPairEvaluable(trkpts, i) ==
  /\ ~IsNone(trkpts[i - 1].time)
  /\ ~IsNone(trkpts[i].time)
  /\ Val(trkpts[i].time).t # Val(trkpts[i - 1].time).t

\* C5: a track is excluded only for a pair of trkpt elements adjacent in the
\* document that both carry a time, with differing times, and are too fast;
\* no speed is computed across a pair that lacks a time or has equal times.
C5_SkippedPairsNeverExclude ==
  fphase = "filtered" =>
    LET trkpts == fdoc.trkpts
        evaluable == { i \in 2..Len(trkpts) : DocPairEvaluable(trkpts, i) }
    IN /\ fres.calls <= Cardinality(evaluable)
       /\ fres.excluded =>
            \E i \in evaluable :
              haversine(trkpts[i - 1].lat, trkpts[i - 1].lon,
                        trkpts[i].lat, trkpts[i].lon) * 3600
                > Val(fmax) * Abs(Val(trkpts[i].time).t - Val(trkpts[i - 1].time).t)

\* C6: parse_gpx returns one point per trkpt element, in document order; a
\* trkpt without a time element gives a point without a time.
C6_OnePointPerTrkpt ==
  fphase \in {"parsed", "filtered"} =>
    /\ Len(fparsed.points) = Len(fdoc.trkpts)
    /\ \A i \in 1..Len(fdoc.trkpts) :
         /\ fparsed.points[i][1] = fdoc.trkpts[i].lat
         /\ fparsed.points[i][2] = fdoc.trkpts[i].lon

\* The fatal configuration errors: autoscale without a bounding box, autoscale
\* with a bounding box of zero latitude span, a colour string in an overlay
\* request that does not parse.
BadColorRequested ==
  /\ ~IsNone(args.geojson)
  /\ \E i \in 1..Len(Val(args.geojson)) :
       \E k \in 2..Len(Val(args.geojson)[i]) : ~to_rgba_ok(Val(args.geojson)[i][k])
ConfigurationError ==
  \/ ~IsNone(args.autoscale) /\ IsNone(args.bbox)
  \/ ~IsNone(args.autoscale) /\ args.bbox = Some(FlatBox)
  \/ BadColorRequested

\* C7: a run with a fatal configuration error opens no overlay file, lists
\* no directory, reads no track file and never calls the renderer.
C7_ConfigErrorsBeforeAnyIO ==
  ConfigurationError =>
    (opened = 0 /\ IsNone(listing) /\ hist = << >> /\ saved = 0 /\ pc # "done")

\* C8: a track file that parses to no points does not end the run: the loop
\* goes on to the entries after it.
C8_EmptyTrackDoesNotFail ==
  \A i \in 1..Len(hist) :
    (hist[i].parsed /\ hist[i].empty) => (file_i > i /\ err # "draw_gpx_points")

\* What C9 as stated and as amended share: overlays lie in request order,
\* every track is added after every overlay, and every track has a zorder
\* strictly above every overlay's.
OverlaysThenTracks(a) ==
  /\ \A i, j \in Overlays(a) : i < j => a[i].src <= a[j].src
  /\ \A i \in Overlays(a) : \A k \in Tracks(a) : i < k /\ a[i].zorder < a[k].zorder
  /\ \A i, k \in Tracks(a) : i < k => a[i].src < a[k].src

C10_OverlayFailureIsFatal ==
  err = "draw_geojson" =>
    /\ pc = "aborted"
    /\ opened = ovl
    /\ \A i \in Overlays(axies) : axies[i].src <= ovl
    /\ IsNone(listing)
    /\ hist = << >>
    /\ Tracks(axies) = {}
    /\ saved = 0
    /\ IsNone(rendered)

C10_Witness ==
  /\ err = "draw_geojson"
  /\ pc = "aborted"
  /\ ovl = 1
  /\ Len(Val(args.geojson)) = 2

====
